---- MODULE Spec2Model ----
(***************************************************************************)
(* Model of src/video_frame_describer.py: the frame sampler iter_frames    *)
(* and the description pipeline describe_video_frames.                     *)
(*                                                                         *)
(* The video capture is modelled by what the code observes of it: whether  *)
(* it opens, its frame rate (a rational fpsNum/fpsDen), its frame count,   *)
(* the positions of its undecodable frames and its read position.          *)
(* Reals are exact rationals; a timestamp is a reduced fraction <<n, d>>.  *)
(* The image of a frame is identified with the frame's position in the     *)
(* original sequence.                                                      *)
(***************************************************************************)
EXTENDS Integers, Sequences, FiniteSets, TLC

\* ---------------------------------------------------------------- bounds
MaxFrames == 4
MaxFpsNum == 3
MaxFpsDen == 2
MaxIvNum == 2
MaxIvDen == 2
MaxExhaustedPulls == 2
MaxFailAt == 3

\* Frame counts, frame rates and intervals the inputs are drawn from.  The
\* 20-frame source and the 30 fps rate are the two scenarios of the design.
FrameCounts == (0 .. MaxFrames) \cup {20}
FpsNums == (-1 .. MaxFpsNum) \cup {30}
FpsDens == 1 .. MaxFpsDen
IvNums == (-1 .. MaxIvNum)
IvDens == 1 .. MaxIvDen

VARIABLES
    consumer,        \* "pipeline": describe_video_frames drives iter_frames;
                     \* "direct": the caller iterates iter_frames itself
    canOpen,         \* capture.isOpened() after construction
    fpsNum, fpsDen,  \* capture.get(CAP_PROP_FPS) = fpsNum / fpsDen
    ivNum, ivDen,    \* interval_seconds = ivNum / ivDen
    nFrames,         \* number of frames in the container
    corrupt,         \* positions of the frames that fail to decode
    failAt,          \* the describe_frame call that raises (0: none does)
    pc,              \* position of the run
    opened,          \* a capture was successfully opened
    released,        \* capture.release() was called
    pos,             \* read position of the capture (CAP_PROP_POS_FRAMES)
    frame_interval,  \* local of iter_frames
    frame_index,     \* local of iter_frames
    lastReadOk,      \* `success` of the last capture.read()
    sampled,         \* triples yielded by iter_frames, in order
    calls,           \* frames handed to describe_frame, in order
    described,       \* FrameDescriptions yielded by describe_video_frames
    reads,           \* number of capture.read() calls
    seeks,           \* number of capture.set(CAP_PROP_POS_FRAMES, ..) calls
    pulls,           \* number of next() calls made by the consumer
    exhaustedPulls,  \* next() calls made on a finished generator
    error            \* exception that reached the consumer, or "none"

inputs == <<consumer, canOpen, fpsNum, fpsDen, ivNum, ivDen, nFrames, corrupt,
            failAt>>
counters == <<reads, seeks, pulls, exhaustedPulls>>
logs == <<sampled, calls, described>>
locals == <<frame_interval, frame_index, lastReadOk>>
vars == <<inputs, pc, opened, released, pos, locals, logs, counters, error>>

\* ------------------------------------------------------- pure functions
Max(a, b) == IF a >= b THEN a ELSE b

Abs(a) == IF a >= 0 THEN a ELSE -a

RECURSIVE GCD(_, _)
GCD(a, b) == IF b = 0 THEN Abs(a) ELSE GCD(Abs(b), Abs(a) % Abs(b))

\* Python int() of the rational n/d (d > 0): truncation toward zero.
IntTrunc(n, d) == IF n >= 0 THEN n \div d ELSE -((-n) \div d)

\* frame_interval = max(int(fps * interval_seconds), 1)
StrideNoClamp(fn, fd, in, id) == IntTrunc(fn * in, fd * id)
Stride(fn, fd, in, id) == Max(IntTrunc(fn * in, fd * id), 1)

\* timestamp = frame_index / fps, as a reduced fraction
Reduced(n, d) == IF n = 0 THEN <<0, 1>> ELSE <<n \div GCD(n, d), d \div GCD(n, d)>>
TimestampProduct(idx, fn, fd) == Reduced(idx * fn, fd)
Timestamp(idx, fn, fd) == Reduced(idx * fd, fn)

\* capture.read(): succeeds iff the read position holds a decodable frame
CanDecode(p) == p >= 0 /\ p < nFrames /\ p \notin corrupt

Finished == pc \in {"done", "raised", "closed"}

\* ------------------------------------------------------------------ Init
Init ==
    /\ consumer \in {"pipeline", "direct"}
    /\ canOpen \in BOOLEAN
    /\ fpsNum \in FpsNums
    /\ fpsDen \in FpsDens
    /\ ivNum \in IvNums
    /\ ivDen \in IvDens
    /\ nFrames \in FrameCounts
    /\ corrupt \in {{}} \cup {{p} : p \in 0 .. nFrames - 1}
    /\ failAt \in IF consumer = "pipeline" THEN 0 .. MaxFailAt ELSE {0}
    /\ pc = "new"
    /\ opened = FALSE
    /\ released = FALSE
    /\ pos = 0
    /\ frame_interval = 0
    /\ frame_index = 0
    /\ lastReadOk = FALSE
    /\ sampled = <<>>
    /\ calls = <<>>
    /\ described = <<>>
    /\ reads = 0
    /\ seeks = 0
    /\ pulls = 0
    /\ exhaustedPulls = 0
    /\ error = "none"

\* --------------------------------------------------------------- actions

\* The consumer calls next() on a generator that is new or suspended at its
\* yield.  A new generator starts at the top of iter_frames; a suspended one
\* resumes after the yield (line 36), i.e. at the seek.
Pull ==
    /\ pc \in {"new", "yielded"}
    /\ pc' = IF pc = "new" THEN "open" ELSE "seek"
    /\ pulls' = pulls + 1
    /\ UNCHANGED <<inputs, opened, released, pos, locals, logs,
                   reads, seeks, exhaustedPulls, error>>

\* next() on a finished generator raises StopIteration and runs no code.
PullExhausted ==
    /\ Finished
    /\ exhaustedPulls < MaxExhaustedPulls
    /\ pulls' = pulls + 1
    /\ exhaustedPulls' = exhaustedPulls + 1
    /\ UNCHANGED <<inputs, pc, opened, released, pos, locals, logs,
                   reads, seeks, error>>

\* capture = cv2.VideoCapture(video_path); if not capture.isOpened(): raise
Open ==
    /\ pc = "open"
    /\ IF canOpen
         THEN /\ opened' = TRUE
              /\ pc' = "fps"
              /\ error' = error
         ELSE /\ opened' = FALSE
              /\ pc' = "raised"
              /\ error' = "SourceUnavailable"
    /\ UNCHANGED <<inputs, released, pos, locals, logs, counters>>

\* GetFps without the `fps <= 0` check.
GetFpsUnchecked ==
    /\ pc = "fps"
    /\ pc' = "read"
    /\ error' = error
    /\ frame_interval' = Stride(fpsNum, fpsDen, ivNum, ivDen)
    /\ frame_index' = 0
    /\ UNCHANGED <<inputs, opened, released, pos, lastReadOk, logs, counters>>

\* fps = capture.get(CAP_PROP_FPS); if fps <= 0: raise;
\* frame_interval = max(int(fps * interval_seconds), 1); frame_index = 0
GetFps ==
    /\ pc = "fps"
    /\ IF fpsNum <= 0
         THEN /\ pc' = "raised"
              /\ error' = "SourceUnavailable"
              /\ UNCHANGED <<frame_interval, frame_index>>
         ELSE /\ pc' = "read"
              /\ error' = error
              /\ frame_interval' = Stride(fpsNum, fpsDen, ivNum, ivDen)
              /\ frame_index' = 0
    /\ UNCHANGED <<inputs, opened, released, pos, lastReadOk, logs, counters>>

\* Read that raises on a failed decode instead of leaving the loop.
ReadRaising ==
    /\ pc = "read"
    /\ reads' = reads + 1
    /\ lastReadOk' = CanDecode(pos)
    /\ IF CanDecode(pos)
         THEN /\ pos' = pos + 1
              /\ sampled' = Append(sampled,
                     [index |-> frame_index,
                      timestamp |-> Timestamp(frame_index, fpsNum, fpsDen),
                      image |-> pos])
              /\ pc' = IF consumer = "pipeline" THEN "describe" ELSE "yielded"
              /\ error' = error
         ELSE /\ pos' = pos
              /\ sampled' = sampled
              /\ pc' = "raised"
              /\ error' = "DecodeError"
    /\ UNCHANGED <<inputs, opened, released, frame_interval, frame_index,
                   calls, described, seeks, pulls, exhaustedPulls>>

\* success, frame = capture.read(); if not success: break;
\* timestamp = frame_index / fps; yield frame_index, timestamp, frame
Read ==
    /\ pc = "read"
    /\ reads' = reads + 1
    /\ lastReadOk' = CanDecode(pos)
    /\ IF CanDecode(pos)
         THEN /\ pos' = pos + 1
              /\ sampled' = Append(sampled,
                     [index |-> frame_index,
                      timestamp |-> Timestamp(frame_index, fpsNum, fpsDen),
                      image |-> pos])
              /\ pc' = IF consumer = "pipeline" THEN "describe" ELSE "yielded"
         ELSE /\ pos' = pos
              /\ sampled' = sampled
              /\ pc' = "release"
    /\ UNCHANGED <<inputs, opened, released, frame_interval, frame_index,
                   calls, described, seeks, pulls, exhaustedPulls, error>>

\* Seek that positions the capture at the cursor before its increment.
SeekStale ==
    /\ pc = "seek"
    /\ pos' = frame_index
    /\ frame_index' = frame_index + frame_interval
    /\ seeks' = seeks + 1
    /\ pc' = "read"
    /\ UNCHANGED <<inputs, opened, released, frame_interval, lastReadOk, logs,
                   reads, pulls, exhaustedPulls, error>>

\* Seek that advances the cursor but never repositions the capture.
SeekCursorOnly ==
    /\ pc = "seek"
    /\ pos' = pos
    /\ frame_index' = frame_index + frame_interval
    /\ seeks' = seeks
    /\ pc' = "read"
    /\ UNCHANGED <<inputs, opened, released, frame_interval, lastReadOk, logs,
                   reads, pulls, exhaustedPulls, error>>

\* capture.set(CAP_PROP_POS_FRAMES, frame_index + frame_interval);
\* frame_index += frame_interval
Seek ==
    /\ pc = "seek"
    /\ pos' = frame_index + frame_interval
    /\ frame_index' = frame_index + frame_interval
    /\ seeks' = seeks + 1
    /\ pc' = "read"
    /\ UNCHANGED <<inputs, opened, released, frame_interval, lastReadOk, logs,
                   reads, pulls, exhaustedPulls, error>>

\* capture.release() after the loop; the generator returns (StopIteration),
\* which ends the for loop of describe_video_frames as well.
Release ==
    /\ pc = "release"
    /\ released' = TRUE
    /\ pc' = "done"
    /\ UNCHANGED <<inputs, opened, pos, locals, logs, counters, error>>

\* Describe that swallows the describer's exception and skips the frame.
DescribeSwallowing ==
    /\ pc = "describe"
    /\ calls' = Append(calls, sampled[Len(sampled)])
    /\ pc' = IF Len(calls) + 1 # failAt THEN "emit" ELSE "yielded"
    /\ error' = error
    /\ UNCHANGED <<inputs, opened, released, pos, locals, sampled, described,
                   counters>>

\* description = describe_frame(effective_client, frame, prompt, model):
\* returns a text, or raises (JPEG encoding or the remote call failed); the
\* exception is not caught by describe_video_frames.
Describe ==
    /\ pc = "describe"
    /\ calls' = Append(calls, sampled[Len(sampled)])
    /\ IF Len(calls) + 1 # failAt
         THEN /\ pc' = "emit"
              /\ error' = error
         ELSE /\ pc' = "raised"
              /\ error' = "DescribeError"
    /\ UNCHANGED <<inputs, opened, released, pos, locals, sampled, described,
                   counters>>

\* Emit that numbers the descriptions by their count, not by frame index.
EmitEnumerated ==
    /\ pc = "emit"
    /\ described' = Append(described,
           [index |-> Len(described),
            timestamp |-> calls[Len(calls)].timestamp])
    /\ pc' = "yielded"
    /\ UNCHANGED <<inputs, opened, released, pos, locals, sampled, calls,
                   counters, error>>

\* Emit that goes on to the next frame without waiting for the next pull
\* (collecting the descriptions instead of yielding them one at a time).
EmitEager ==
    /\ pc = "emit"
    /\ described' = Append(described,
           [index |-> calls[Len(calls)].index,
            timestamp |-> calls[Len(calls)].timestamp])
    /\ pc' = "seek"
    /\ UNCHANGED <<inputs, opened, released, pos, locals, sampled, calls,
                   counters, error>>

\* yield FrameDescription(index=index, timestamp=timestamp, description=..)
Emit ==
    /\ pc = "emit"
    /\ described' = Append(described,
           [index |-> calls[Len(calls)].index,
            timestamp |-> calls[Len(calls)].timestamp])
    /\ pc' = "yielded"
    /\ UNCHANGED <<inputs, opened, released, pos, locals, sampled, calls,
                   counters, error>>

\* The consumer abandons the iteration: close() (or dropping the last
\* reference) raises GeneratorExit at the yield the generator is suspended
\* at.  iter_frames has no try/finally, so nothing after line 36 runs.
Close ==
    /\ pc \in {"new", "yielded"}
    /\ pc' = "closed"
    /\ UNCHANGED <<inputs, opened, released, pos, locals, logs, counters, error>>

Next ==
    \/ Pull
    \/ PullExhausted
    \/ Open
    \/ GetFps
    \/ Read
    \/ Seek
    \/ Release
    \/ Describe
    \/ Emit
    \/ Close

Spec == Init /\ [][Next]_vars

\* The code runs to its next yield, return or raise once next() is called;
\* the consumer of FairSpec keeps pulling while the generator is not finished.
FairSpec == Spec /\ WF_vars(Next)

\* ---------------------------------------------------------------- claims

Indices(seq) == [i \in 1 .. Len(seq) |-> seq[i].index]
StrideComputed == opened /\ fpsNum > 0 /\ pc # "fps"
Is30FpsZeroInterval == fpsNum = 30 * fpsDen /\ ivNum = 0
Is20FramesAt2Fps ==
    /\ nFrames = 20 /\ corrupt = {}
    /\ fpsNum = 2 * fpsDen /\ ivNum = ivDen
DescriberFailed == failAt >= 1 /\ Len(calls) >= failAt

C2_SampledIndices ==
    (corrupt = {}) =>
        /\ \A i \in 1 .. Len(sampled) :
             /\ sampled[i].index = (i - 1) * frame_interval
             /\ sampled[i].index < nFrames
        /\ \A i \in 2 .. Len(sampled) :
             sampled[i].index - sampled[i - 1].index = frame_interval
        /\ pc = "done" =>
             Len(sampled) = (nFrames + frame_interval - 1) \div frame_interval

C2_Witness ==
    /\ pc = "done"
    /\ corrupt = {}
    /\ nFrames = 4
    /\ frame_interval = 3
    /\ Len(sampled) = 2

\* C3: in no terminal state of a run is a successfully opened capture left
\* unreleased (normal exhaustion, failure, or abandonment by the consumer).
C3_ReleasedOnEveryExit == (Finished /\ opened) => released

\* C4: while the describer does not fail, describe_video_frames hands every
\* frame yielded by iter_frames to the describer exactly once and in sampling
\* order, and yields one FrameDescription per call carrying the index and the
\* timestamp of the sampled frame.
C4_OneDescriptionPerFrame ==
    (consumer = "pipeline") =>
        /\ Len(calls) <= Len(sampled)
        /\ Len(sampled) - Len(calls) <= 1
        /\ Len(described) <= Len(calls)
        /\ \A i \in 1 .. Len(calls) : calls[i] = sampled[i]
        /\ \A i \in 1 .. Len(described) :
             /\ described[i].index = sampled[i].index
             /\ described[i].timestamp = sampled[i].timestamp
        /\ (~DescriberFailed /\ pc \notin {"describe", "emit"}) =>
             /\ Len(calls) = Len(sampled)
             /\ Len(described) = Len(sampled)
             /\ Indices(described) = Indices(sampled)

C4_Witness ==
    /\ consumer = "pipeline"
    /\ pc = "done"
    /\ ~DescriberFailed
    /\ frame_interval = 2
    /\ Len(described) = 2

\* C5: when the describer fails on its k-th call, exactly k-1 descriptions
\* have been yielded, the failure reaches the caller, and from then on no
\* frame is decoded, no seek is issued and the describer is not called again.
C5_DescriberFailureAborts ==
    /\ [](DescriberFailed =>
            /\ Len(calls) = failAt
            /\ Len(described) = failAt - 1
            /\ pc = "raised"
            /\ error = "DescribeError")
    /\ [][DescriberFailed =>
            UNCHANGED <<reads, seeks, pos, sampled, calls, described>>]_vars

C5_Witness ==
    /\ DescriberFailed
    /\ failAt = 2
    /\ nFrames > frame_index + frame_interval
    /\ corrupt = {}
    /\ exhaustedPulls = 1

\* C6: when the source cannot be opened or its frame rate is <= 0, the run
\* fails with the source-unavailable error before any frame is decoded and
\* before the describer is called; nothing is yielded.
C6_SourceUnavailable ==
    (~canOpen \/ fpsNum <= 0) =>
        /\ reads = 0
        /\ seeks = 0
        /\ sampled = <<>>
        /\ calls = <<>>
        /\ described = <<>>
        /\ pc \in {"new", "open", "fps", "raised", "closed"}
        /\ (pc = "raised") <=> (error = "SourceUnavailable")
        /\ (pulls > exhaustedPulls /\ pc \notin {"open", "fps"}) => pc = "raised"

C6_Witness ==
    /\ canOpen
    /\ fpsNum <= 0
    /\ nFrames > 0
    /\ pc = "raised"
    /\ error = "SourceUnavailable"
    /\ exhaustedPulls = 1

\* C7: sampling is lazy and interleaved with describing: nothing is opened,
\* decoded or sought before the consumer pulls, decode attempts and seeks
\* never outnumber the pulls, and in the pipeline frame i+1 is decoded only
\* after the description of frame i was yielded (one frame in flight).
C7_LazyInterleaved ==
    /\ (pulls = 0) => (~opened /\ reads = 0 /\ seeks = 0)
    /\ reads <= pulls
    /\ seeks <= pulls
    /\ (consumer = "pipeline") =>
         /\ reads <= Len(described) + 1
         /\ Len(sampled) - Len(described) <= 1
         /\ (pc \in {"seek", "read"}) => Len(described) = Len(sampled)

C7_Witness ==
    /\ consumer = "pipeline"
    /\ pc = "describe"
    /\ reads = 3
    /\ pulls = 3
    /\ Len(described) = 2

C9_Timestamps ==
    /\ \A i \in 1 .. Len(sampled) :
         /\ sampled[i].timestamp[2] > 0
         /\ sampled[i].timestamp[1] * fpsNum
              = sampled[i].index * fpsDen * sampled[i].timestamp[2]
    /\ (Is20FramesAt2Fps /\ StrideComputed) =>
         /\ frame_interval = 2
         /\ Len(sampled) <= 10
         /\ \A i \in 1 .. Len(sampled) :
              /\ sampled[i].index = 2 * (i - 1)
              /\ sampled[i].timestamp = <<i - 1, 1>>
         /\ pc = "done" => Len(sampled) = 10

C9_Witness ==
    /\ Is20FramesAt2Fps
    /\ pc = "done"
    /\ Len(sampled) = 10
    /\ sampled[10].index = 18

\* C10: at every decode attempt the read position of the capture equals the
\* cursor frame_index, so the image of every yielded triple is the frame at
\* the yielded index of the original sequence.
C10_PositionIsCursor ==
    /\ (pc = "read") => pos = frame_index
    /\ (pc = "seek") => pos = frame_index + 1
    /\ \A i \in 1 .. Len(sampled) : sampled[i].image = sampled[i].index

C10_Witness ==
    /\ pc = "read"
    /\ seeks = 2
    /\ frame_interval = 2
    /\ pos = 4
    /\ Len(sampled) = 2

====
